---- MODULE Spec2Model ----
(***************************************************************************)
(* CapitalClient (src/main.py): the credential store (self.cst, self.sec), *)
(* the REST operations login / ping / search_markets / place_market_order, *)
(* and stream_quotes with its receive loop and its keepalive thread.       *)
(*                                                                         *)
(* The REST operations are blocking calls: each is one action, drawing the *)
(* venue's response from a small set.  stream_quotes is a sequence of      *)
(* steps of the calling thread (pc) running against the pinger thread,     *)
(* with a clock `now` in seconds.  The model follows one client and one    *)
(* streaming session of it; after the session the process lives on.        *)
(***************************************************************************)
EXTENDS Integers, Sequences, FiniteSets, TLC

VARIABLES
    cst,        \* self.cst
    sec,        \* self.sec
    good,       \* history: <<CST, X-SECURITY-TOKEN>> of the latest login that returned True
    lastOp,     \* history: the REST operation called last
    result,     \* history: how that call ended ("ok" or the exception raised)
    reqs,       \* history: the authenticated HTTP requests that call issued, in order
    pc,         \* stream_quotes: position of the calling thread
    epics,      \* stream_quotes: the epics argument
    run_seconds,\* stream_quotes: the run_seconds argument
    t_end,      \* stream_quotes: t_end (line 96)
    now,        \* time.time(), seconds since the client was constructed
    conn,       \* the ws connection: "none", "open", "closed"
    closeCalls, \* history: number of ws.close() calls
    outcome,    \* history: how stream_quotes ended ("ok" or the exception raised)
    exitAt,     \* history: the time at which the receive loop was left
    subMsg,     \* history: the subscribe messages sent on ws, in order
    received,   \* history: the non-empty raw messages ws.recv() returned, in order
    delivered,  \* history: the arguments of the on_quote calls, in order
    pinger,     \* the keepalive thread: "none", "sleeping", "dead"
    wake,       \* the time at which the pinger's current sleep ends
    pings       \* history: the ping sends the pinger attempted, in order

restVars   == <<lastOp, result, reqs>>
storeVars  == <<cst, sec, good>>
streamVars == <<pc, epics, run_seconds, t_end, now, conn, closeCalls, outcome, exitAt,
                subMsg, received, delivered, pinger, wake, pings>>
vars       == <<cst, sec, good, lastOp, result, reqs, pc, epics, run_seconds,
                t_end, now, conn,
                closeCalls, outcome, exitAt, subMsg, received, delivered, pinger,
                wake, pings>>

(***************************************************************************)
(* Values                                                                  *)
(***************************************************************************)
None == "None"                       \* Python's None (a missing header, a missing key)

Truthy(x) == x /= None /\ x /= ""    \* `if x` for a str-or-None

(***************************************************************************)
(* Credential store                                                        *)
(***************************************************************************)
\* A login response: how the HTTP exchange went and the two headers
\* r.headers.get("CST"), r.headers.get("X-SECURITY-TOKEN").
LoginResponses ==
    [http : {"ok"}, CST : {None, "", "c1", "c2"}, SEC : {None, "", "s1"}]
    \cup [http : {"HTTPError", "ConnectionError"}, CST : {None}, SEC : {None}]

\* login() keeps the store it finds when it already holds tokens.
login_keep(resp) ==
    /\ lastOp' = "login"
    /\ reqs' = <<>>
    /\ IF resp.http /= "ok"
       THEN /\ result' = resp.http
            /\ UNCHANGED <<cst, sec, good>>
       ELSE /\ cst' = IF Truthy(cst) THEN cst ELSE resp.CST
            /\ sec' = IF Truthy(sec) THEN sec ELSE resp.SEC
            /\ IF ~Truthy(resp.CST) \/ ~Truthy(resp.SEC)
               THEN result' = "RuntimeError" /\ good' = good
               ELSE result' = "ok" /\ good' = <<resp.CST, resp.SEC>>

\* login() that drops the stored tokens when the HTTP exchange fails.
login_clear_on_error(resp) ==
    /\ lastOp' = "login"
    /\ reqs' = <<>>
    /\ IF resp.http /= "ok"
       THEN /\ result' = resp.http
            /\ cst' = None /\ sec' = None /\ good' = good
       ELSE /\ cst' = resp.CST
            /\ sec' = resp.SEC
            /\ IF ~Truthy(resp.CST) \/ ~Truthy(resp.SEC)
               THEN result' = "RuntimeError" /\ good' = good
               ELSE result' = "ok" /\ good' = <<resp.CST, resp.SEC>>

\* login(): requests.post raises on a transport failure, raise_for_status on a
\* non-2xx status; then both headers are stored, and only then checked.
login(resp) ==
    /\ lastOp' = "login"
    /\ reqs' = <<>>
    /\ IF resp.http /= "ok"
       THEN /\ result' = resp.http
            /\ UNCHANGED <<cst, sec, good>>
       ELSE /\ cst' = resp.CST
            /\ sec' = resp.SEC
            /\ IF ~Truthy(resp.CST) \/ ~Truthy(resp.SEC)
               THEN result' = "RuntimeError" /\ good' = good
               ELSE result' = "ok" /\ good' = <<resp.CST, resp.SEC>>

\* _auth_headers() that hands out whatever the store holds.
auth_headers_unchecked(c, s) == [ok |-> TRUE, CST |-> c, SEC |-> s]

\* _auth_headers(): raises RuntimeError unless both tokens are truthy.
auth_headers(c, s) ==
    IF ~(Truthy(c) /\ Truthy(s))
    THEN [ok |-> FALSE, CST |-> None, SEC |-> None]
    ELSE [ok |-> TRUE, CST |-> c, SEC |-> s]

(***************************************************************************)
(* REST operations                                                         *)
(***************************************************************************)
\* How a requests.get / requests.post with raise_for_status can go.
HttpOutcomes == {"ok", "HTTPError", "ConnectionError"}

Request(method, path, h, arg) ==
    [method |-> method, path |-> path, CST |-> h.CST, SEC |-> h.SEC, arg |-> arg]

\* ping() that forgets the session when the venue answers with an error status.
ping_clearing(http) ==
    LET h == auth_headers(cst, sec) IN
    /\ lastOp' = "ping"
    /\ IF ~h.ok
       THEN result' = "RuntimeError" /\ reqs' = <<>> /\ UNCHANGED <<cst, sec, good>>
       ELSE /\ reqs' = <<Request("GET", "/api/v1/ping", h, <<>>)>>
            /\ result' = http
            /\ IF http = "HTTPError"
               THEN cst' = None /\ sec' = None /\ good' = good
               ELSE UNCHANGED <<cst, sec, good>>

\* ping(): the headers are built before requests.get is called.
ping(http) ==
    LET h == auth_headers(cst, sec) IN
    /\ lastOp' = "ping"
    /\ IF ~h.ok
       THEN result' = "RuntimeError" /\ reqs' = <<>>
       ELSE /\ reqs' = <<Request("GET", "/api/v1/ping", h, <<>>)>>
            /\ result' = http
    /\ UNCHANGED <<cst, sec, good>>

\* ",".join(epics), as the sequence of its pieces.
Join(es) == [i \in 1..(IF Len(es) = 0 THEN 0 ELSE 2 * Len(es) - 1) |->
                IF i % 2 = 1 THEN es[(i + 1) \div 2] ELSE ","]

SearchEpics == {None, <<>>, <<"E1">>, <<"E1", "E2">>}

\* search_markets(): params carries "epics" only for a non-empty list.
search_markets(term, es, http) ==
    LET h == auth_headers(cst, sec)
        params == IF es /= None /\ es /= <<>>
                  THEN <<term, Join(es)>>
                  ELSE <<term>>
    IN
    /\ lastOp' = "search_markets"
    /\ IF ~h.ok
       THEN result' = "RuntimeError" /\ reqs' = <<>>
       ELSE /\ reqs' = <<Request("GET", "/api/v1/markets", h, params)>>
            /\ result' = http
    /\ UNCHANGED <<cst, sec, good>>

Upper(d) == CASE d = "buy" -> "BUY" [] d = "sell" -> "SELL" [] OTHER -> d

Directions == {"buy", "SELL"}
\* **risk: keyword -> value; the None values are dropped from the payload.
Risks == {<<>>, <<<<"profitDistance", "10">>, <<"stopDistance", None>>>>}

Payload(epic, direction, risk) ==
    <<<<"epic", epic>>, <<"direction", Upper(direction)>>, <<"size", "1.0">>>>
    \o SelectSeq(risk, LAMBDA kv : kv[2] /= None)

\* The body of the order POST's response: r.json().get("dealReference").
DealRefs == {None, "D1"}

\* place_market_order() that fetches the confirmation a second time when the
\* first GET fails.
place_market_order_retry(epic, direction, risk, postHttp, dealRef, confHttp) ==
    LET h == auth_headers(cst, sec)
        post == Request("POST", "/api/v1/positions", h, Payload(epic, direction, risk))
        conf == Request("GET", "/api/v1/confirms/", h, dealRef)
    IN
    /\ lastOp' = "place_market_order"
    /\ IF ~h.ok
       THEN result' = "RuntimeError" /\ reqs' = <<>>
       ELSE IF postHttp /= "ok"
       THEN result' = "post:" \o postHttp /\ reqs' = <<post>>
       ELSE IF confHttp = "ok"
       THEN result' = "ok" /\ reqs' = <<post, conf>>
       ELSE result' = "confirm:" \o confHttp /\ reqs' = <<post, conf, conf>>
    /\ UNCHANGED <<cst, sec, good>>

\* place_market_order(): POST /positions, then GET /confirms/{deal_ref} with
\* whatever deal_ref the body gave.
place_market_order(epic, direction, risk, postHttp, dealRef, confHttp) ==
    LET h == auth_headers(cst, sec)
        post == Request("POST", "/api/v1/positions", h, Payload(epic, direction, risk))
        conf == Request("GET", "/api/v1/confirms/", h, dealRef)
    IN
    /\ lastOp' = "place_market_order"
    /\ IF ~h.ok
       THEN result' = "RuntimeError" /\ reqs' = <<>>
       ELSE IF postHttp /= "ok"
       THEN result' = "post:" \o postHttp /\ reqs' = <<post>>
       ELSE /\ reqs' = <<post, conf>>
            /\ result' = IF confHttp = "ok" THEN "ok" ELSE "confirm:" \o confHttp
    /\ UNCHANGED <<cst, sec, good>>

Login == \E resp \in LoginResponses : login(resp) /\ UNCHANGED streamVars

Ping == \E http \in HttpOutcomes : ping(http) /\ UNCHANGED streamVars

SearchMarkets ==
    \E es \in SearchEpics, http \in HttpOutcomes :
        search_markets("BTC", es, http) /\ UNCHANGED streamVars

PlaceMarketOrder ==
    \E d \in Directions, risk \in Risks, ph \in HttpOutcomes, ref \in DealRefs,
       ch \in HttpOutcomes :
        place_market_order("E1", d, risk, ph, ref, ch) /\ UNCHANGED streamVars

(***************************************************************************)
(* stream_quotes                                                           *)
(***************************************************************************)
ReadTimeout == 20            \* create_connection(WS_URL, timeout=20)
KeepaliveInterval == 540     \* time.sleep(540)
EpicLimit == 40              \* list(epics)[:40]

MaxTime == 1200              \* the clock stops advancing here
MaxRecv == 2                 \* non-empty messages read in one session
MaxEpics == 42               \* longest epics argument

\* s[:n]
Take(s, n) == SubSeq(s, 1, IF Len(s) < n THEN Len(s) ELSE n)

\* The subscribe message with one identifier too many.
SubscribeMsgOffByOne(c, s, es) ==
    [destination |-> "marketData.subscribe", correlationId |-> "1",
     cst |-> c, securityToken |-> s, epics |-> Take(es, EpicLimit + 1)]

\* msg of lines 80-86.
SubscribeMsg(c, s, es) ==
    [destination |-> "marketData.subscribe", correlationId |-> "1",
     cst |-> c, securityToken |-> s, epics |-> Take(es, EpicLimit)]

\* The ping message of line 93.
PingMsg(c, s) ==
    [destination |-> "ping", correlationId |-> "keepalive", cst |-> c, securityToken |-> s]

\* Raw texts ws.recv() can return.
RawQuote1 == "{destination:quote,payload:p1}"
RawQuote2 == "{destination:quote,payload:p2}"
RawQuoteNoPayload == "{destination:quote}"
RawPing == "{destination:ping,payload:p1}"
RawNotJson == "not json"
RawArray == "[1]"
Raws == {RawQuote1, RawQuote2, RawQuoteNoPayload, RawPing, RawNotJson, RawArray}

\* json.loads(raw): ok = FALSE is JSONDecodeError; isObj says whether the value is a dict.
json_loads(raw) ==
    CASE raw = RawQuote1 ->
           [ok |-> TRUE, isObj |-> TRUE, destination |-> "quote", hasPayload |-> TRUE, payload |-> "p1"]
      [] raw = RawQuote2 ->
           [ok |-> TRUE, isObj |-> TRUE, destination |-> "quote", hasPayload |-> TRUE, payload |-> "p2"]
      [] raw = RawQuoteNoPayload ->
           [ok |-> TRUE, isObj |-> TRUE, destination |-> "quote", hasPayload |-> FALSE, payload |-> None]
      [] raw = RawPing ->
           [ok |-> TRUE, isObj |-> TRUE, destination |-> "ping", hasPayload |-> TRUE, payload |-> "p1"]
      [] raw = RawArray ->
           [ok |-> TRUE, isObj |-> FALSE, destination |-> None, hasPayload |-> FALSE, payload |-> None]
      [] OTHER ->
           [ok |-> FALSE, isObj |-> FALSE, destination |-> None, hasPayload |-> FALSE, payload |-> None]

\* stream_quotes that goes on to subscribe after a failed create_connection.
stream_open_swallow(es, rs, ok) ==
    /\ pc = "idle"
    /\ epics' = es
    /\ run_seconds' = rs
    /\ conn' = IF ok THEN "open" ELSE conn
    /\ pc' = "subscribe"
    /\ outcome' = outcome
    /\ UNCHANGED <<t_end, now, closeCalls, exitAt, subMsg, received, delivered,
                   pinger, wake, pings>>

\* stream_quotes that starts the pinger thread before it subscribes.
stream_open_early_pinger(es, rs, ok) ==
    /\ pc = "idle"
    /\ epics' = es
    /\ run_seconds' = rs
    /\ IF ok
       THEN /\ conn' = "open" /\ pc' = "subscribe" /\ outcome' = outcome
            /\ pinger' = "sleeping" /\ wake' = now
       ELSE /\ conn' = conn /\ pc' = "done" /\ outcome' = "ConnectionError"
            /\ UNCHANGED <<pinger, wake>>
    /\ UNCHANGED <<t_end, now, closeCalls, exitAt, subMsg, received, delivered, pings>>

\* ws = create_connection(WS_URL, timeout=20): outside the try, so a failure
\* propagates with nothing to close.
stream_open(es, rs, ok) ==
    /\ pc = "idle"
    /\ epics' = es
    /\ run_seconds' = rs
    /\ IF ok
       THEN conn' = "open" /\ pc' = "subscribe" /\ outcome' = outcome
       ELSE conn' = conn /\ pc' = "done" /\ outcome' = "ConnectionError"
    /\ UNCHANGED <<t_end, now, closeCalls, exitAt, subMsg, received, delivered,
                   pinger, wake, pings>>

\* ws.send(json.dumps(msg)): the tokens are read from the store as they are.
stream_subscribe(ok) ==
    /\ pc = "subscribe"
    /\ IF ok
       THEN /\ subMsg' = Append(subMsg, SubscribeMsg(cst, sec, epics))
            /\ pc' = "start"
            /\ UNCHANGED <<outcome, exitAt>>
       ELSE /\ subMsg' = subMsg
            /\ pc' = "finally"
            /\ outcome' = "SendError"
            /\ exitAt' = now
    /\ UNCHANGED <<epics, run_seconds, t_end, now, conn, closeCalls, received,
                   delivered, pinger, wake, pings>>

\* threading.Thread(target=pinger, daemon=True).start(); t_end = time.time() + run_seconds
stream_start ==
    /\ pc = "start"
    /\ pinger' = "sleeping"
    /\ wake' = now + KeepaliveInterval
    /\ t_end' = now + run_seconds
    /\ pc' = "loop"
    /\ UNCHANGED <<epics, run_seconds, now, conn, closeCalls, outcome, exitAt,
                   subMsg, received, delivered, pings>>

\* What one ws.recv() gives: a text, a falsy value, or an exception: "timeout"
\* is the read that saw no data for ReadTimeout seconds, which the connection
\* made by create_connection(timeout=20) reports by raising; "raise" is any
\* other failure of the transport.
RecvResults == {"raise", "timeout", ""} \cup Raws

Leave(exc, t) == pc' = "finally" /\ outcome' = exc /\ exitAt' = t

\* The dispatch test without the destination.
is_quote_any_payload(data) == data.hasPayload

\* data.get("destination") == "quote" and "payload" in data
is_quote(data) == data.destination = "quote" /\ data.hasPayload

\* One iteration of the receive loop: the read blocks for d seconds; an
\* exception of recv, json.loads, data.get or on_quote leaves the loop.
stream_recv(d, raw, consumerOk) ==
    LET data == json_loads(raw) IN
    /\ pc = "loop"
    /\ now < t_end
    /\ raw = "timeout" => d = ReadTimeout
    /\ now' = now + d
    /\ IF raw = "raise"
       THEN Leave("RecvError", now') /\ UNCHANGED <<received, delivered>>
       ELSE IF raw = "timeout"
       THEN Leave("WebSocketTimeoutException", now') /\ UNCHANGED <<received, delivered>>
       ELSE IF ~Truthy(raw)
       THEN UNCHANGED <<pc, outcome, exitAt, received, delivered>>
       ELSE /\ Len(received) < MaxRecv
            /\ received' = Append(received, raw)
            /\ IF ~data.ok
               THEN Leave("JSONDecodeError", now') /\ delivered' = delivered
               ELSE IF ~data.isObj
               THEN Leave("AttributeError", now') /\ delivered' = delivered
               ELSE IF is_quote(data)
               THEN /\ delivered' = Append(delivered, data.payload)
                    /\ IF consumerOk
                       THEN UNCHANGED <<pc, outcome, exitAt>>
                       ELSE Leave("ConsumerError", now')
               ELSE UNCHANGED <<pc, outcome, exitAt, delivered>>
    /\ UNCHANGED <<epics, run_seconds, t_end, conn, closeCalls, subMsg, pinger,
                   wake, pings>>

\* while time.time() < t_end: false.
stream_deadline ==
    /\ pc = "loop"
    /\ now >= t_end
    /\ Leave("ok", now)
    /\ UNCHANGED <<epics, run_seconds, t_end, now, conn, closeCalls, subMsg,
                   received, delivered, pinger, wake, pings>>

\* finally with a close whose failure reaches the caller.
stream_close_raising(ok) ==
    /\ pc = "finally"
    /\ closeCalls' = closeCalls + 1
    /\ conn' = IF ok THEN "closed" ELSE conn
    /\ outcome' = IF ok THEN outcome ELSE "CloseError"
    /\ pc' = "done"
    /\ UNCHANGED <<epics, run_seconds, t_end, now, exitAt, subMsg, received,
                   delivered, pinger, wake, pings>>

\* finally: try: ws.close() except: pass.  The pinger thread is left running.
stream_close(ok) ==
    /\ pc = "finally"
    /\ closeCalls' = closeCalls + 1
    /\ conn' = IF ok THEN "closed" ELSE conn
    /\ pc' = "done"
    /\ UNCHANGED <<epics, run_seconds, t_end, now, outcome, exitAt, subMsg,
                   received, delivered, pinger, wake, pings>>

PingAttempt(ok) ==
    [at |-> now, conn |-> conn, sent |-> ok, msg |-> PingMsg(cst, sec)]

\* A pinger whose failed send is raised into stream_quotes.
pinger_send_raising(ok) ==
    /\ pinger = "sleeping"
    /\ now >= wake
    /\ ok => conn = "open"
    /\ pings' = Append(pings, PingAttempt(ok))
    /\ IF ok
       THEN pinger' = pinger /\ wake' = now + KeepaliveInterval
                             /\ UNCHANGED <<pc, outcome, exitAt>>
       ELSE /\ pinger' = "dead" /\ wake' = wake
            /\ IF pc = "loop"
               THEN Leave("SendError", now)
               ELSE UNCHANGED <<pc, outcome, exitAt>>
    /\ UNCHANGED <<epics, run_seconds, t_end, now, conn, closeCalls, subMsg,
                   received, delivered>>

\* A pinger that sends the tokens the subscribe message carried.
pinger_send_snapshot(ok) ==
    /\ pinger = "sleeping"
    /\ now >= wake
    /\ ok => conn = "open"
    /\ pings' = Append(pings, [at |-> now, conn |-> conn, sent |-> ok,
                               msg |-> PingMsg(subMsg[1].cst, subMsg[1].securityToken)])
    /\ IF ok
       THEN pinger' = pinger /\ wake' = now + KeepaliveInterval
       ELSE pinger' = "dead" /\ wake' = wake
    /\ UNCHANGED <<pc, epics, run_seconds, t_end, now, conn, closeCalls, outcome,
                   exitAt, subMsg, received, delivered>>

\* The pinger thread after its sleep: ws.send of the ping with the tokens the
\* store holds now.  A send on a closed connection raises; an exception ends
\* the thread and nothing else.
pinger_send(ok) ==
    /\ pinger = "sleeping"
    /\ now >= wake
    /\ ok => conn = "open"
    /\ pings' = Append(pings, PingAttempt(ok))
    /\ IF ok
       THEN pinger' = pinger /\ wake' = now + KeepaliveInterval
       ELSE pinger' = "dead" /\ wake' = wake
    /\ UNCHANGED <<pc, epics, run_seconds, t_end, now, conn, closeCalls, outcome,
                   exitAt, subMsg, received, delivered>>

\* After stream_quotes has returned or raised, the process goes on.
idle(d) ==
    /\ pc = "done"
    /\ now + d <= MaxTime
    /\ now' = now + d
    /\ UNCHANGED <<pc, epics, run_seconds, t_end, conn, closeCalls, outcome,
                   exitAt, subMsg, received, delivered, pinger, wake, pings>>

\* Arguments of stream_quotes.
Ascending(n) == [i \in 1..n |-> i]
Descending(n) == [i \in 1..n |-> n + 1 - i]
EpicsInputs == {<<>>, Ascending(EpicLimit + 1)}
RunSecondsInputs == {0, 30, KeepaliveInterval + ReadTimeout}
RecvDelays == {0, ReadTimeout}
IdleSteps == {KeepaliveInterval}

\* The logins a session is run against.
StreamLoginResponses ==
    {r \in LoginResponses :
        r.http = "ok" /\ r.CST \in {"c1", "c2"} /\ r.SEC = "s1"}

\* The epics arguments the subscribe message is checked on.
SubEpicsInputs ==
    {Ascending(n) : n \in 0..MaxEpics} \cup {Descending(n) : n \in 0..MaxEpics}

SubOpen ==
    \E es \in SubEpicsInputs, ok \in BOOLEAN :
        stream_open(es, 0, ok) /\ UNCHANGED <<storeVars, restVars>>

StreamOpen ==
    \E es \in EpicsInputs, rs \in RunSecondsInputs, ok \in BOOLEAN :
        stream_open(es, rs, ok) /\ UNCHANGED <<storeVars, restVars>>

StreamSubscribe ==
    \E ok \in BOOLEAN : stream_subscribe(ok) /\ UNCHANGED <<storeVars, restVars>>

StreamStart == stream_start /\ UNCHANGED <<storeVars, restVars>>

StreamRecv ==
    \E d \in RecvDelays, raw \in RecvResults, consumerOk \in BOOLEAN :
        stream_recv(d, raw, consumerOk) /\ UNCHANGED <<storeVars, restVars>>

StreamDeadline == stream_deadline /\ UNCHANGED <<storeVars, restVars>>

StreamClose ==
    \E ok \in BOOLEAN : stream_close(ok) /\ UNCHANGED <<storeVars, restVars>>

PingerSend ==
    \E ok \in BOOLEAN : pinger_send(ok) /\ UNCHANGED <<storeVars, restVars>>

Idle == \E d \in IdleSteps : idle(d) /\ UNCHANGED <<storeVars, restVars>>

StreamLogin == \E resp \in StreamLoginResponses : login(resp) /\ UNCHANGED streamVars

Init ==
    /\ cst = None /\ sec = None /\ good = <<None, None>>
    /\ lastOp = "none" /\ result = "none" /\ reqs = <<>>
    /\ pc = "idle" /\ epics = <<>> /\ run_seconds = 0 /\ t_end = 0 /\ now = 0
    /\ conn = "none" /\ closeCalls = 0 /\ outcome = "none" /\ exitAt = 0
    /\ subMsg = <<>> /\ received = <<>> /\ delivered = <<>>
    /\ pinger = "none" /\ wake = 0 /\ pings = <<>>

NextRest == Login \/ Ping \/ SearchMarkets \/ PlaceMarketOrder

SpecRest == Init /\ [][NextRest]_vars

NextStream ==
    \/ StreamLogin
    \/ StreamOpen \/ StreamSubscribe \/ StreamStart \/ StreamRecv \/ StreamDeadline
    \/ StreamClose \/ PingerSend \/ Idle

SpecStream == Init /\ [][NextStream]_vars

\* A session given any epics list and a zero duration: open, subscribe, start,
\* deadline, close.
NextSub ==
    \/ StreamLogin
    \/ SubOpen \/ StreamSubscribe \/ StreamStart \/ StreamDeadline \/ StreamClose

SpecSub == Init /\ [][NextSub]_vars

\* One short session next to the REST operations, all on one store.
FrameRaws == {"", "timeout", RawQuote1, RawNotJson}

FrameOpen ==
    \E ok \in BOOLEAN :
        stream_open(Ascending(1), 30, ok) /\ UNCHANGED <<storeVars, restVars>>

FrameRecv ==
    \E d \in RecvDelays, raw \in FrameRaws, consumerOk \in BOOLEAN :
        stream_recv(d, raw, consumerOk) /\ UNCHANGED <<storeVars, restVars>>

FrameSearch ==
    \E http \in HttpOutcomes :
        search_markets("BTC", <<"E1", "E2">>, http) /\ UNCHANGED streamVars

FrameOrder ==
    \E ph \in HttpOutcomes, ch \in HttpOutcomes :
        place_market_order("E1", "buy", <<>>, ph, "D1", ch) /\ UNCHANGED streamVars

NextFrame ==
    \/ StreamLogin \/ Ping \/ FrameSearch \/ FrameOrder
    \/ FrameOpen \/ StreamSubscribe \/ StreamStart \/ FrameRecv \/ StreamDeadline
    \/ StreamClose \/ PingerSend \/ Idle

SpecFrame == Init /\ [][NextFrame]_vars

(***************************************************************************)
(* Properties                                                              *)
(***************************************************************************)
AuthenticatedOps == {"ping", "search_markets", "place_market_order"}

NeverLoggedIn == good = <<None, None>>

\* C1: as long as no login() has succeeded, a call of ping, search_markets or
\* place_market_order ends in the "not authenticated" RuntimeError and has
\* issued no HTTP request.
C1_UnauthenticatedCallsIssueNothing ==
    (NeverLoggedIn /\ lastOp \in AuthenticatedOps)
        => (result = "RuntimeError" /\ reqs = <<>>)

\* The call is refused although a failed login has left a CST in the store.
C1_Witness ==
    /\ NeverLoggedIn
    /\ lastOp = "place_market_order"
    /\ result = "RuntimeError"
    /\ cst = "c1"

\* C2: after a login() that failed because a token header was missing or
\* empty, the store holds neither a session token nor a security token.
C2_FailedLoginLeavesStoreEmpty ==
    (lastOp = "login" /\ result = "RuntimeError")
        => (~Truthy(cst) /\ ~Truthy(sec))

\* C3: a login whose response carries both tokens returns True, and every
\* authenticated request issued afterwards carries exactly the two tokens of
\* the latest login that returned True.
C3_RequestsCarryLatestLogin ==
    /\ (lastOp = "login" /\ result \notin {"HTTPError", "ConnectionError"}
            /\ Truthy(cst) /\ Truthy(sec))
          => (result = "ok" /\ good = <<cst, sec>>)
    /\ \A i \in 1..Len(reqs) : reqs[i].CST = good[1] /\ reqs[i].SEC = good[2]

\* Both requests of an order carry the tokens of a login.
C3_Witness ==
    /\ lastOp = "place_market_order"
    /\ Len(reqs) = 2
    /\ good = <<"c2", "s1">>
    /\ reqs[2].CST = "c2" /\ reqs[2].SEC = "s1"

\* C7: no GET to the confirmation endpoint is made for a missing dealReference.
C7_ConfirmOnlyForExistingReference ==
    \A i \in 1..Len(reqs) :
        reqs[i].path = "/api/v1/confirms/" => reqs[i].arg /= None

\* C4: no ping is sent or attempted on a connection stream_quotes has closed.
C4_NoPingAfterClose ==
    \A i \in 1..Len(pings) : pings[i].conn /= "closed"

LoopEntered == pinger /= "none"

LoopLeft == LoopEntered /\ pc \in {"finally", "done"}

\* C5: when the receive loop is left without a transport error and without an
\* exception of the consumer, it is left at or after t_end and before
\* t_end + ReadTimeout.
C5_LoopEndsInDeadlineWindow ==
    (LoopLeft /\ outcome \notin {"RecvError", "ConsumerError"})
        => (exitAt >= t_end /\ exitAt < t_end + ReadTimeout)

Malformed(raw) == ~json_loads(raw).ok \/ ~json_loads(raw).isObj

\* C6: a received message that is not a JSON object does not end the session:
\* the loop is left only by the deadline, a read error or the consumer.
C6_MalformedMessageSkipped ==
    (\E i \in 1..Len(received) : Malformed(received[i]))
        => outcome \in {"none", "ok", "RecvError", "ConsumerError"}

\* C8: the session sends at most one subscribe message, and its epics are the
\* first min(n, EpicLimit) entries of the argument, in the argument's order.
C8_SubscribeCarriesFirstForty ==
    /\ Len(subMsg) <= 1
    /\ \A i \in 1..Len(subMsg) :
          /\ Len(subMsg[i].epics) =
                 (IF Len(epics) < EpicLimit THEN Len(epics) ELSE EpicLimit)
          /\ \A j \in 1..Len(subMsg[i].epics) : subMsg[i].epics[j] = epics[j]
    /\ (pc = "subscribe" /\ Len(epics) > EpicLimit) => outcome = "none"

\* A list of 42 in descending order went out as its first 40.
C8_Witness ==
    /\ epics = Descending(EpicLimit + 2)
    /\ Len(subMsg) = 1
    /\ Len(subMsg[1].epics) = EpicLimit
    /\ subMsg[1].epics[1] = EpicLimit + 2
    /\ subMsg[1].epics[EpicLimit] = 3

Opened == pc \notin {"idle"} /\ outcome /= "ConnectionError"

\* C9: a session whose connection was opened has called ws.close() exactly
\* once when stream_quotes is over and not before, and the close step leaves
\* the outcome of the session as it found it.
C9_ClosedOnceOutcomeKept ==
    /\ [](closeCalls = IF Opened /\ pc = "done" THEN 1 ELSE 0)
    /\ [][(pc = "finally" /\ pc' = "done") => outcome' = outcome]_vars

\* A session that died of a parse error, and whose close failed as well.
C9_Witness ==
    /\ pc = "done"
    /\ closeCalls = 1
    /\ conn = "open"
    /\ outcome = "JSONDecodeError"

FailedPingStep == Len(pings') = Len(pings) + 1 /\ ~pings'[Len(pings')].sent

\* C10: a failed send of the pinger changes nothing of stream_quotes: neither
\* its position, its outcome, its deadline nor what it has read and delivered.
C10_PingFailureContained ==
    [][FailedPingStep =>
          UNCHANGED <<pc, outcome, exitAt, t_end, received, delivered, conn>>]_vars

\* The pinger's send failed on the open connection during the loop, and the
\* loop ran on to its deadline and delivered a quote.
C10_Witness ==
    /\ Len(pings) = 1
    /\ ~pings[1].sent
    /\ pings[1].conn = "open"
    /\ pings[1].at < exitAt
    /\ outcome = "ok"
    /\ delivered /= <<>>

\* The payload the consumer is owed for a received text, as a sequence.
OwedPayload(raw) ==
    CASE raw = RawQuote1 -> <<"p1">>
      [] raw = RawQuote2 -> <<"p2">>
      [] OTHER -> <<>>

RECURSIVE OwedPayloads(_)
OwedPayloads(rs) ==
    IF rs = <<>> THEN <<>> ELSE OwedPayload(Head(rs)) \o OwedPayloads(Tail(rs))

\* C11: the on_quote calls of a session are, in order, the payloads of the
\* received messages with destination "quote" and a payload: one call for each
\* of them and none for any other message.
C11_ConsumerCalledOncePerQuoteInOrder ==
    delivered = OwedPayloads(received)

\* Two quotes were received and delivered in the order of their arrival.
C11_Witness ==
    /\ received = <<RawQuote2, RawQuote1>>
    /\ delivered = <<"p2", "p1">>

\* C12: a read that saw no data within the read timeout does not end the
\* session.
C12_SilentReadSkipped ==
    outcome /= "WebSocketTimeoutException"

OrderRequests(rs) ==
    \/ rs = <<>>
    \/ Len(rs) = 1 /\ rs[1].method = "POST" /\ rs[1].path = "/api/v1/positions"
    \/ /\ Len(rs) = 2
       /\ rs[1].method = "POST" /\ rs[1].path = "/api/v1/positions"
       /\ rs[2].method = "GET" /\ rs[2].path = "/api/v1/confirms/"

\* C13: an order issues no request when unauthenticated, else one POST; a
\* failed POST ends the call with the POST's error and no GET; after a good
\* POST exactly one confirmation GET follows, and its failure ends the call
\* with the GET's error.
C13_OrderRequestsOnceInOrder ==
    lastOp = "place_market_order" =>
        /\ OrderRequests(reqs)
        /\ Len(reqs) = 0 <=> result = "RuntimeError"
        /\ Len(reqs) = 1 <=> result \in {"post:HTTPError", "post:ConnectionError"}
        /\ Len(reqs) = 2 <=> result \in {"ok", "confirm:HTTPError", "confirm:ConnectionError"}

\* The confirmation GET failed after a good POST.
C13_Witness ==
    /\ lastOp = "place_market_order"
    /\ result = "confirm:HTTPError"
    /\ Len(reqs) = 2
    /\ reqs[2].arg = "D1"

PingStep == Len(pings') = Len(pings) + 1

PingerStart == t_end - run_seconds

Rank(p) ==
    CASE p = "idle" -> 0
      [] p = "subscribe" -> 1
      [] p = "start" -> 2
      [] p = "loop" -> 3
      [] p = "finally" -> 4
      [] OTHER -> 5

\* C16: the session only moves forward; at most one subscribe message is sent,
\* on an opened connection; the pinger runs and messages are read only after
\* it; a failed open ends stream_quotes with the connection error, nothing
\* sent, no pinger and nothing to close.
C16_SessionMovesForward ==
    /\ [][Rank(pc') >= Rank(pc)]_vars
    /\ [](/\ Len(subMsg) <= 1
          /\ Len(subMsg) = 1 <=> Rank(pc) >= 2 /\ outcome \notin {"SendError", "ConnectionError"}
          /\ Len(subMsg) = 1 => conn /= "none"
          /\ (pinger /= "none" \/ received /= <<>> \/ pings /= <<>>) => Len(subMsg) = 1
          /\ outcome = "ConnectionError" =>
                 /\ pc = "done" /\ conn = "none" /\ closeCalls = 0
                 /\ subMsg = <<>> /\ pinger = "none" /\ pings = <<>>)

\* The open failed and stream_quotes is over with nothing sent.
C16_Witness ==
    /\ outcome = "ConnectionError"
    /\ pc = "done"
    /\ subMsg = <<>>
    /\ now = KeepaliveInterval

\* C17: the store holds both tokens or neither.
C17_BothTokensOrNeither ==
    Truthy(cst) <=> Truthy(sec)

\* C18: no subscribe or ping message leaves with a missing or empty cst or
\* securityToken.
C18_NoMessageWithoutTokens ==
    /\ \A i \in 1..Len(subMsg) :
          Truthy(subMsg[i].cst) /\ Truthy(subMsg[i].securityToken)
    /\ \A i \in 1..Len(pings) :
          Truthy(pings[i].msg.cst) /\ Truthy(pings[i].msg.securityToken)

\* The threads that may call ws.send at their present position.
Writers ==
    (IF pc = "subscribe" THEN {"main"} ELSE {})
    \cup (IF pinger = "sleeping" THEN {"pinger"} ELSE {})

LoginFailedStep == lastOp' = "login" /\ result' \in {"HTTPError", "ConnectionError"}

\* C20: a login() that fails on the HTTP exchange leaves both stored tokens as
\* they were, and the requests of later calls carry the stored tokens.
C20_HttpFailedLoginKeepsStore ==
    /\ [][LoginFailedStep => UNCHANGED <<cst, sec, good>>]_vars
    /\ [](\A i \in 1..Len(reqs) : reqs[i].CST = cst /\ reqs[i].SEC = sec)

\* The tokens of an earlier login are in place after a login that failed.
C20_Witness ==
    /\ lastOp = "login"
    /\ result = "HTTPError"
    /\ cst = "c1"
    /\ sec = "s1"

StoreChanges == cst' /= cst \/ sec' /= sec

LoginStep == (\E resp \in LoginResponses : login(resp)) /\ UNCHANGED streamVars

\* C15: a step that changes a stored token is a step of login(): no step of
\* ping, search_markets, place_market_order, stream_quotes or its pinger
\* changes the session token or the security token.
C15_OnlyLoginChangesStore ==
    [][StoreChanges => LoginStep]_vars

\* Every kind of operation has run, failures among them, and the tokens of
\* the login are still the stored ones.
C15_Witness ==
    /\ cst = "c1" /\ sec = "s1"
    /\ lastOp = "place_market_order"
    /\ result = "confirm:HTTPError"
    /\ outcome = "JSONDecodeError"
    /\ pc = "done"
    /\ Len(pings) = 1
    /\ pings[1].msg.cst = "c1"

====
